---- MODULE Spec2Model ----
(***************************************************************************)
(* Model of the todo-list component of src/src/App.tsx: the in-memory      *)
(* task collection, its four mutating handlers, the localStorage slot      *)
(* that is read once by loadSavedTasks and rewritten by the persistence    *)
(* effect, and the filter / search / sort pipeline (filteredTasks).        *)
(*                                                                         *)
(* JavaScript values are represented as follows.                           *)
(*   string   a sequence of one-character strings, <<"a", "B">>            *)
(*   number   an integer                                                   *)
(*   boolean  a BOOLEAN                                                    *)
(*   null     the record Null                                              *)
(*   object   a record whose fields are the object's own properties        *)
(*   array    a sequence                                                   *)
(* The text held by localStorage is a sequence of JSON tokens.             *)
(***************************************************************************)
EXTENDS Integers, Sequences, FiniteSets, TLC

VARIABLES
  tasks,         \* the collection held by useState
  slot,          \* what localStorage holds under STORAGE_KEY
  newTaskTitle,  \* the text of the title input
  filter,        \* the filter mode
  searchTerm,    \* the text of the search box
  sortBy,        \* the sort option
  now,           \* the last reading of the clock
  phase,         \* "start" before the first render, then "ready"; "crashed"
                 \* once an error has left the component
  uncaught,      \* the error that left the component, "none" if none did
  writeFailed,   \* whether a call of setItem has thrown
  last           \* the handler that ran last, with its inputs

vars == <<tasks, slot, newTaskTitle, filter, searchTerm, sortBy,
          now, phase, uncaught, writeFailed, last>>

(***************************************************************************)
(* Bounds of the model.                                                    *)
(***************************************************************************)
\* Largest collection the handlers are driven to.
MaxTasks == 2
\* Number of milliseconds the clock may advance during a session.
MaxTicks == 1
\* Clock reading (ms since the epoch) when the session starts.
ClockStart == 999
\* Longest collection given to the view pipeline.
MaxViewLen == 3

(***************************************************************************)
(* Strings.                                                                *)
(***************************************************************************)
Null == [null |-> TRUE]

Range(s) == {s[i] : i \in 1..Len(s)}

IsWhite(c) == c = " "

\* index of the first non-blank character at or after i, Len(s)+1 if none
RECURSIVE SkipLeft(_, _)
SkipLeft(s, i) ==
  IF i > Len(s) THEN i
  ELSE IF IsWhite(s[i]) THEN SkipLeft(s, i + 1) ELSE i

\* index of the last non-blank character at or before j, 0 if none
RECURSIVE SkipRight(_, _)
SkipRight(s, j) ==
  IF j < 1 THEN 0
  ELSE IF IsWhite(s[j]) THEN SkipRight(s, j - 1) ELSE j

\* String.prototype.trim
Trim(s) ==
  LET a == SkipLeft(s, 1)
      b == SkipRight(s, Len(s))
  IN IF a > b THEN <<>> ELSE SubSeq(s, a, b)

LowerOf(c) == IF c = "A" THEN "a" ELSE IF c = "B" THEN "b" ELSE c

\* String.prototype.toLowerCase
ToLowerCase(s) == [i \in 1..Len(s) |-> LowerOf(s[i])]

\* String.prototype.includes
Includes(s, t) ==
  \E i \in 0..(Len(s) - Len(t)) : SubSeq(s, i + 1, i + Len(t)) = t

RECURSIVE LexCmp(_, _)
LexCmp(a, b) ==
  IF a = <<>> /\ b = <<>> THEN 0
  ELSE IF a = <<>> THEN -1
  ELSE IF b = <<>> THEN 1
  ELSE IF Head(a) < Head(b) THEN -1
  ELSE IF Head(a) > Head(b) THEN 1
  ELSE LexCmp(Tail(a), Tail(b))

\* collation weights of the default (root / en) locale: letters are ordered
\* alphabetically without regard to case, a blank sorts before any letter,
\* and case only breaks ties, lower case first
PrimaryWeight(c) ==
  IF c = " " THEN 0 ELSE IF LowerOf(c) = "a" THEN 1 ELSE 2

CaseWeight(c) == IF c = LowerOf(c) THEN 0 ELSE 1

\* String.prototype.localeCompare
LocaleCompare(a, b) ==
  LET p == LexCmp([i \in 1..Len(a) |-> PrimaryWeight(a[i])],
                  [i \in 1..Len(b) |-> PrimaryWeight(b[i])])
  IN IF p # 0 THEN p
     ELSE LexCmp([i \in 1..Len(a) |-> CaseWeight(a[i])],
                 [i \in 1..Len(b) |-> CaseWeight(b[i])])

(***************************************************************************)
(* Dates.  An ISO timestamp is modelled by its seconds and milliseconds    *)
(* part, "Tss.mmmZ".                                                       *)
(***************************************************************************)
Digits == <<"0", "1", "2", "3", "4", "5", "6", "7", "8", "9">>

DigitChar(d) == Digits[d + 1]

IsDigit(c) == c \in Range(Digits)

DigitVal(c) == (CHOOSE i \in 1..10 : Digits[i] = c) - 1

\* Date.prototype.toISOString of the date whose time value is ms
ToISOString(ms) ==
  LET s == (ms \div 1000) % 60
      m == ms % 1000
  IN <<"T", DigitChar(s \div 10), DigitChar(s % 10), ".",
       DigitChar(m \div 100), DigitChar((m \div 10) % 10), DigitChar(m % 10),
       "Z">>

\* whether new Date(str) is a valid date
IsValidDate(str) ==
  /\ Len(str) = 8
  /\ str[1] = "T" /\ str[4] = "." /\ str[8] = "Z"
  /\ \A i \in {2, 3, 5, 6, 7} : IsDigit(str[i])

\* new Date(str).getTime() of a valid date
GetTime(str) ==
  (DigitVal(str[2]) * 10 + DigitVal(str[3])) * 1000
    + DigitVal(str[5]) * 100 + DigitVal(str[6]) * 10 + DigitVal(str[7])

(***************************************************************************)
(* JSON text: a sequence of tokens.  A "key" token stands for a property   *)
(* name followed by its colon; a "junk" token for text no JSON value       *)
(* starts with.                                                            *)
(***************************************************************************)
P(c) == [k |-> "p", v |-> c]
Key(name) == [k |-> "key", v |-> name]
Str(s) == [k |-> "str", v |-> s]
Num(n) == [k |-> "num", v |-> n]
Lit(w) == [k |-> "lit", v |-> w]
Junk == [k |-> "junk", v |-> "oops"]

IsP(tk, c) == tk.k = "p" /\ tk.v = c

\* property order of a task object literal (addTask)
KeyOrder == <<"id", "title", "completed", "createdAt">>

FieldToken(name, val) ==
  IF name = "id" THEN Num(val)
  ELSE IF name = "completed" THEN Lit(IF val THEN "true" ELSE "false")
  ELSE Str(val)

RECURSIVE MemberTokens(_, _, _)
MemberTokens(obj, i, first) ==
  IF i > Len(KeyOrder) THEN <<>>
  ELSE IF KeyOrder[i] \in DOMAIN obj
    THEN (IF first THEN <<>> ELSE <<P(",")>>)
           \o <<Key(KeyOrder[i]), FieldToken(KeyOrder[i], obj[KeyOrder[i]])>>
           \o MemberTokens(obj, i + 1, FALSE)
    ELSE MemberTokens(obj, i + 1, first)

ValueTokens(e) ==
  IF "null" \in DOMAIN e THEN <<Lit("null")>>
  ELSE <<P("{")>> \o MemberTokens(e, 1, TRUE) \o <<P("}")>>

RECURSIVE ElementTokens(_, _)
ElementTokens(arr, i) ==
  IF i > Len(arr) THEN <<>>
  ELSE (IF i = 1 THEN <<>> ELSE <<P(",")>>)
         \o ValueTokens(arr[i]) \o ElementTokens(arr, i + 1)

\* JSON.stringify of an array
JSONstringify(arr) == <<P("[")>> \o ElementTokens(arr, 1) \o <<P("]")>>

ParseFail == [ok |-> FALSE, t |-> "err", v |-> <<>>, n |-> 0]

Parsed(type, val, next) == [ok |-> TRUE, t |-> type, v |-> val, n |-> next]

RECURSIVE ParseValue(_, _), ParseElements(_, _, _), ParseMembers(_, _, _)

\* the JSON value that starts at token i
ParseValue(toks, i) ==
  IF i > Len(toks) THEN ParseFail
  ELSE LET tk == toks[i] IN
    CASE tk.k = "num" -> Parsed("num", tk.v, i + 1)
      [] tk.k = "str" -> Parsed("str", tk.v, i + 1)
      [] tk.k = "lit" ->
           IF tk.v = "null" THEN Parsed("null", Null, i + 1)
           ELSE Parsed("bool", tk.v = "true", i + 1)
      [] IsP(tk, "[") ->
           IF i + 1 <= Len(toks) /\ IsP(toks[i + 1], "]")
             THEN Parsed("arr", <<>>, i + 2)
             ELSE ParseElements(toks, i + 1, <<>>)
      [] IsP(tk, "{") ->
           IF i + 1 <= Len(toks) /\ IsP(toks[i + 1], "}")
             THEN Parsed("obj", <<>>, i + 2)
             ELSE ParseMembers(toks, i + 1, <<>>)
      [] OTHER -> ParseFail

\* the elements of an array, from the element that starts at token i
ParseElements(toks, i, acc) ==
  LET e == ParseValue(toks, i) IN
  IF ~e.ok \/ e.n > Len(toks) THEN ParseFail
  ELSE IF IsP(toks[e.n], "]") THEN Parsed("arr", Append(acc, e.v), e.n + 1)
  ELSE IF IsP(toks[e.n], ",") THEN ParseElements(toks, e.n + 1, Append(acc, e.v))
  ELSE ParseFail

\* the members of an object, from the member that starts at token i;
\* acc is the sequence of <<name, value>> pairs read so far
ParseMembers(toks, i, acc) ==
  IF i > Len(toks) \/ toks[i].k # "key" THEN ParseFail
  ELSE LET e == ParseValue(toks, i + 1) IN
    IF ~e.ok \/ e.n > Len(toks) THEN ParseFail
    ELSE LET acc2 == Append(acc, <<toks[i].v, e.v>>) IN
      IF IsP(toks[e.n], "}")
        THEN Parsed("obj",
                    [name \in {acc2[j][1] : j \in 1..Len(acc2)} |->
                       \* a repeated name keeps its last value
                       acc2[CHOOSE j \in 1..Len(acc2) :
                              /\ acc2[j][1] = name
                              /\ \A j2 \in (j + 1)..Len(acc2) : acc2[j2][1] # name][2]],
                    e.n + 1)
      ELSE IF IsP(toks[e.n], ",") THEN ParseMembers(toks, e.n + 1, acc2)
      ELSE ParseFail

\* JSON.parse: ok = FALSE stands for the SyntaxError it throws
JSONparse(text) ==
  LET r == ParseValue(text, 1) IN
  IF r.ok /\ r.n = Len(text) + 1 THEN r ELSE ParseFail

(***************************************************************************)
(* localStorage: the slot under STORAGE_KEY is absent or holds a text.     *)
(***************************************************************************)
Absent == [present |-> FALSE, text |-> <<>>]

Holding(text) == [present |-> TRUE, text |-> text]

\* the seed collection (data/mockTasks): three tasks, one of them completed
MockTasks ==
  << [id |-> 1, title |-> <<"a">>, completed |-> FALSE, createdAt |-> ToISOString(300)],
     [id |-> 2, title |-> <<"B">>, completed |-> TRUE, createdAt |-> ToISOString(200)],
     [id |-> 3, title |-> <<"a", "b">>, completed |-> FALSE, createdAt |-> ToISOString(100)] >>

\* typeof window !== 'undefined': the component runs in a browser
HasWindow == TRUE

\* variant of loadSavedTasks: an empty array counts as nothing saved
LoadTreatsEmptyArrayAsMissing(s) ==
  IF ~HasWindow THEN MockTasks
  ELSE IF ~s.present \/ s.text = <<>> THEN MockTasks
  ELSE LET parsed == JSONparse(s.text) IN
    IF ~parsed.ok THEN MockTasks
    ELSE IF parsed.t # "arr" \/ parsed.v = <<>> THEN MockTasks
    ELSE parsed.v

\* loadSavedTasks, given what localStorage holds under STORAGE_KEY
loadSavedTasks(s) ==
  IF ~HasWindow THEN MockTasks
  ELSE IF ~s.present \/ s.text = <<>> THEN MockTasks
  ELSE LET parsed == JSONparse(s.text) IN
    IF ~parsed.ok THEN MockTasks
    ELSE IF parsed.t # "arr" THEN MockTasks
    ELSE parsed.v

(***************************************************************************)
(* The component: rendering, the persistence effect, the handlers.         *)
(***************************************************************************)
Truthy(e, name) == name \in DOMAIN e /\ e[name] = TRUE

\* tasks.filter(t => t.completed).length
completedCount(ts) == Len(SelectSeq(ts, LAMBDA t : Truthy(t, "completed")))

\* the filter-mode test of filteredTasks
PassesFilter(t, f) ==
  IF f = "completed" THEN Truthy(t, "completed")
  ELSE IF f = "pending" THEN ~Truthy(t, "completed")
  ELSE TRUE

\* whether evaluating the component body throws a TypeError: reading a
\* property of null (completedCount), or calling toLowerCase on a title
\* that is not there (filteredTasks)
RenderThrows(ts, f) ==
  \/ \E i \in 1..Len(ts) : "null" \in DOMAIN ts[i]
  \/ \E i \in 1..Len(ts) : PassesFilter(ts[i], f) /\ "title" \notin DOMAIN ts[i]

\* variant of WithNewTask: the new record behind the others
AddAppends(ts, title, idTime, createdTime) ==
  ts \o << [id |-> idTime, title |-> Trim(title), completed |-> FALSE,
            createdAt |-> ToISOString(createdTime)] >>

\* [newTask, ...tasks]
WithNewTask(ts, title, idTime, createdTime) ==
  << [id |-> idTime, title |-> Trim(title), completed |-> FALSE,
      createdAt |-> ToISOString(createdTime)] >> \o ts

\* !newTaskTitle.trim()
IsBlank(title) == Trim(title) = <<>>

\* variant of Toggled: completed set rather than flipped
ToggleSetsTrue(ts, taskId) ==
  [i \in 1..Len(ts) |->
     IF ts[i].id = taskId THEN [ts[i] EXCEPT !.completed = TRUE] ELSE ts[i]]

\* tasks.map(t => t.id === taskId ? { ...t, completed: !t.completed } : t)
Toggled(ts, taskId) ==
  [i \in 1..Len(ts) |->
     IF ts[i].id = taskId THEN [ts[i] EXCEPT !.completed = ~@] ELSE ts[i]]

\* variant of Deleted: the first record removed, whatever its id
DeleteDropsHead(ts, taskId) == IF ts = <<>> THEN ts ELSE Tail(ts)

\* tasks.filter(t => t.id !== taskId)
Deleted(ts, taskId) == SelectSeq(ts, LAMBDA t : t.id # taskId)

\* variant of Cleared: only the first completed record removed
ClearDropsFirstCompleted(ts) ==
  IF \E i \in 1..Len(ts) : ts[i].completed
    THEN LET i == CHOOSE j \in 1..Len(ts) :
                    ts[j].completed /\ \A j2 \in 1..(j - 1) : ~ts[j2].completed
         IN SubSeq(ts, 1, i - 1) \o SubSeq(ts, i + 1, Len(ts))
    ELSE ts

\* tasks.filter(t => !t.completed)
Cleared(ts) == SelectSeq(ts, LAMBDA t : ~Truthy(t, "completed"))

\* variant of Commit: the effect does not run
CommitSkipsWrite(ts) ==
  /\ tasks' = ts
  /\ slot' = slot
  /\ phase' = "ready"
  /\ uncaught' = uncaught
  /\ writeFailed' = writeFailed

\* What follows a committed state change: the component renders again, then
\* the persistence effect writes the collection to the slot.  setItem may
\* throw (quota exceeded); nothing catches it, nor a TypeError thrown while
\* rendering, so React unmounts the component.
Commit(ts) ==
  /\ tasks' = ts
  /\ IF RenderThrows(ts, filter)
       THEN /\ phase' = "crashed"
            /\ uncaught' = "TypeError"
            /\ slot' = slot
            /\ writeFailed' = writeFailed
       ELSE \E writes \in BOOLEAN :
              IF writes
                THEN /\ slot' = Holding(JSONstringify(ts))
                     /\ phase' = "ready"
                     /\ uncaught' = uncaught
                     /\ writeFailed' = writeFailed
                ELSE /\ slot' = slot
                     /\ phase' = "crashed"
                     /\ uncaught' = "QuotaExceededError"
                     /\ writeFailed' = TRUE

\* the entry of last: the handler that ran and what it was given
Ran(op, taskId, granted) == [op |-> op, id |-> taskId, granted |-> granted]

\* the first render: useState(() => loadSavedTasks()) and the first run of
\* the effect
Mount ==
  /\ phase = "start"
  /\ Commit(loadSavedTasks(slot))
  /\ last' = Ran("mount", 0, TRUE)
  /\ UNCHANGED <<newTaskTitle, filter, searchTerm, sortBy, now>>

\* onChange of the title input: setNewTaskTitle(e.target.value)
TitleInputs == { <<" ">>, <<" ", "a", " ">> }

SetNewTaskTitle ==
  /\ phase = "ready"
  /\ \E value \in TitleInputs : newTaskTitle' = value
  /\ last' = Ran("type", 0, TRUE)
  /\ UNCHANGED <<tasks, slot, filter, searchTerm, sortBy, now, phase, uncaught, writeFailed>>

\* the clock readings still possible in this session
Clock == now..(ClockStart + MaxTicks)

\* onSubmit of the form.  Date.now() and new Date() read the clock one after
\* the other.
addTask ==
  /\ phase = "ready"
  /\ last' = Ran("add", 0, TRUE)
  /\ IF IsBlank(newTaskTitle)
       THEN UNCHANGED <<tasks, slot, newTaskTitle, now, phase, uncaught, writeFailed>>
       ELSE /\ Len(tasks) < MaxTasks
            /\ \E idTime \in Clock :
                 \E createdTime \in idTime..(ClockStart + MaxTicks) :
                   /\ Commit(WithNewTask(tasks, newTaskTitle, idTime, createdTime))
                   /\ now' = createdTime
            /\ newTaskTitle' = <<>>
  /\ UNCHANGED <<filter, searchTerm, sortBy>>

\* the ids a handler is called with: those of the collection and one that
\* matches no record
TaskIds(ts) == {ts[i].id : i \in 1..Len(ts)} \cup {0}

\* onClick of a task's check button
toggleComplete ==
  /\ phase = "ready"
  /\ \E taskId \in TaskIds(tasks) :
       /\ Commit(Toggled(tasks, taskId))
       /\ last' = Ran("toggle", taskId, TRUE)
  /\ UNCHANGED <<newTaskTitle, filter, searchTerm, sortBy, now>>

\* onClick of a task's delete button; granted is what confirm() returns
deleteTask ==
  /\ phase = "ready"
  /\ \E taskId \in TaskIds(tasks) : \E granted \in BOOLEAN :
       /\ last' = Ran("delete", taskId, granted)
       /\ IF ~granted
            THEN UNCHANGED <<tasks, slot, phase, uncaught, writeFailed>>
            ELSE Commit(Deleted(tasks, taskId))
  /\ UNCHANGED <<newTaskTitle, filter, searchTerm, sortBy, now>>

\* onClick of "clear completed"; confirm() is reached only when some task
\* is completed
clearCompleted ==
  /\ phase = "ready"
  /\ IF completedCount(tasks) = 0
       THEN /\ last' = Ran("clear", 0, FALSE)
            /\ UNCHANGED <<tasks, slot, phase, uncaught, writeFailed>>
       ELSE \E granted \in BOOLEAN :
              /\ last' = Ran("clear", 0, granted)
              /\ IF ~granted
                   THEN UNCHANGED <<tasks, slot, phase, uncaught, writeFailed>>
                   ELSE Commit(Cleared(tasks))
  /\ UNCHANGED <<newTaskTitle, filter, searchTerm, sortBy, now>>

(***************************************************************************)
(* What localStorage may hold when the page is opened.                     *)
(***************************************************************************)
StoredTask ==
  [id |-> 500, title |-> <<"A">>, completed |-> TRUE, createdAt |-> ToISOString(500)]

\* texts that JSON.parse rejects
UnparsableTexts ==
  { <<Junk>>,
    <<P("[")>>,
    <<P("["), Lit("null"), P(",")>>,
    <<P("["), P("{"), P("}"), P(","), P("]")>>,
    <<P("{"), Key("id"), P("}")>>,
    <<P("["), P("]"), P("]")>> }

\* JSON texts of values that are not arrays
NonArrayTexts ==
  { <<Num(5)>>, <<Str(<<"a">>)>>, <<Lit("null")>>, <<Lit("true")>>,
    <<P("{"), P("}")>>,
    ValueTokens(StoredTask) }

\* JSON texts of arrays with an entry that is not a task record: null, or
\* an object without a title
MalformedEntryTexts ==
  { <<P("["), Lit("null"), P("]")>>,
    <<P("["), P("{"), Key("id"), Num(7), P("}"), P("]")>>,
    <<P("["), P("{"), P("}"), P("]")>>,
    <<P("[")>> \o ValueTokens(StoredTask) \o <<P(","), Lit("null"), P("]")>>,
    <<P("["), P("{"), Key("id"), Num(7), P(","), Key("completed"), Lit("true"),
      P("}"), P("]")>> }

\* JSON texts of arrays of task records
TaskArrayTexts ==
  { JSONstringify(<<>>),
    JSONstringify(<<StoredTask>>),
    JSONstringify(<<[StoredTask EXCEPT !.completed = FALSE], MockTasks[1]>>) }

InitialSlots ==
  {Absent, Holding(<<>>)}
    \cup {Holding(t) : t \in UnparsableTexts \cup NonArrayTexts
                               \cup MalformedEntryTexts \cup TaskArrayTexts}

Init ==
  /\ slot \in InitialSlots
  /\ tasks = <<>>
  /\ newTaskTitle = <<>>
  /\ filter = "all"
  /\ searchTerm = <<>>
  /\ sortBy = "newest"
  /\ now = ClockStart
  /\ phase = "start"
  /\ uncaught = "none"
  /\ writeFailed = FALSE
  /\ last = Ran("none", 0, TRUE)

Next ==
  \/ Mount
  \/ SetNewTaskTitle
  \/ addTask
  \/ toggleComplete
  \/ deleteTask
  \/ clearCompleted

Spec == Init /\ [][Next]_vars

(***************************************************************************)
(* The derived view: filteredTasks.                                        *)
(***************************************************************************)
\* new Date(b).getTime() - new Date(a).getTime(); the difference is NaN
\* when either date is invalid, and sort takes a NaN result for 0
DateDiff(b, a) ==
  IF IsValidDate(a) /\ IsValidDate(b) THEN GetTime(b) - GetTime(a) ELSE 0

\* Number(task.completed)
NumberOf(flag) == IF flag THEN 1 ELSE 0

\* variant of Sorter: "newest" with its operands exchanged
SorterNewestAscending(option, a, b) ==
  CASE option = "newest" -> DateDiff(a.createdAt, b.createdAt)
    [] option = "oldest" -> DateDiff(a.createdAt, b.createdAt)
    [] option = "az" -> LocaleCompare(a.title, b.title)
    [] option = "za" -> LocaleCompare(b.title, a.title)
    [] OTHER -> NumberOf(a.completed) - NumberOf(b.completed)

\* sorter[option](a, b)
Sorter(option, a, b) ==
  CASE option = "newest" -> DateDiff(b.createdAt, a.createdAt)
    [] option = "oldest" -> DateDiff(a.createdAt, b.createdAt)
    [] option = "az" -> LocaleCompare(a.title, b.title)
    [] option = "za" -> LocaleCompare(b.title, a.title)
    [] OTHER -> NumberOf(a.completed) - NumberOf(b.completed)

\* x put into the sorted sequence s, behind every element that does not
\* sort after it
RECURSIVE Insert(_, _, _)
Insert(s, x, option) ==
  IF s = <<>> THEN <<x>>
  ELSE IF Sorter(option, Head(s), x) > 0 THEN <<x>> \o s
  ELSE <<Head(s)>> \o Insert(Tail(s), x, option)

\* Array.prototype.sort with sorter[option]: a stable sort
RECURSIVE SortedBy(_, _, _)
SortedBy(s, n, option) ==
  IF n = 0 THEN <<>>
  ELSE Insert(SortedBy(s, n - 1, option), s[n], option)

\* task.title.toLowerCase().includes(term)
MatchesTerm(t, term) == Includes(ToLowerCase(t.title), term)

\* the value of the useMemo: filter by mode, filter by search term, sort
filteredTasks(ts, f, search, option) ==
  LET term == ToLowerCase(search)
      base == SelectSeq(SelectSeq(ts, LAMBDA t : PassesFilter(t, f)),
                        LAMBDA t : MatchesTerm(t, term))
  IN SortedBy(base, Len(base), option)

FilterTypes == {"all", "completed", "pending"}

SortOptions == {"newest", "oldest", "az", "za", "pending-first"}

\* what is typed into the search box
SearchInputs == { <<>>, <<"A">>, <<"b">>, <<"a", "B">> }

\* onClick of a filter button
SetFilter ==
  /\ phase = "ready"
  /\ \E key \in FilterTypes : filter' = key
  /\ last' = Ran("view", 0, TRUE)
  /\ UNCHANGED <<tasks, slot, newTaskTitle, searchTerm, sortBy, now, phase, uncaught, writeFailed>>

\* onChange of the search box
SetSearchTerm ==
  /\ phase = "ready"
  /\ \E value \in SearchInputs : searchTerm' = value
  /\ last' = Ran("view", 0, TRUE)
  /\ UNCHANGED <<tasks, slot, newTaskTitle, filter, sortBy, now, phase, uncaught, writeFailed>>

\* onChange of the sort select
SetSortBy ==
  /\ phase = "ready"
  /\ \E value \in SortOptions : sortBy' = value
  /\ last' = Ran("view", 0, TRUE)
  /\ UNCHANGED <<tasks, slot, newTaskTitle, filter, searchTerm, now, phase, uncaught, writeFailed>>

\* task records the view is computed over: titles that differ only by case,
\* equal titles, equal creation times, both completion states
ViewTasks ==
  { [id |-> 1, title |-> <<"a">>, completed |-> FALSE, createdAt |-> ToISOString(999)],
    [id |-> 2, title |-> <<"A">>, completed |-> TRUE, createdAt |-> ToISOString(999)],
    [id |-> 3, title |-> <<"B">>, completed |-> FALSE, createdAt |-> ToISOString(1000)],
    [id |-> 4, title |-> <<"a", "b">>, completed |-> TRUE, createdAt |-> ToISOString(1000)],
    [id |-> 5, title |-> <<"a">>, completed |-> TRUE, createdAt |-> ToISOString(1001)],
    [id |-> 6, title |-> <<"b", " ", "A">>, completed |-> FALSE, createdAt |-> ToISOString(999)] }

ViewCollections ==
  UNION {[1..n -> ViewTasks] : n \in 0..MaxViewLen}

\* a session whose collection is any of ViewCollections, and in which only
\* the three view parameters change
InitView ==
  /\ tasks \in ViewCollections
  /\ slot = Holding(JSONstringify(tasks))
  /\ newTaskTitle = <<>>
  /\ filter = "all"
  /\ searchTerm = <<>>
  /\ sortBy = "newest"
  /\ now = ClockStart
  /\ phase = "ready"
  /\ uncaught = "none"
  /\ writeFailed = FALSE
  /\ last = Ran("mount", 0, TRUE)

NextView ==
  \/ SetFilter
  \/ SetSearchTerm
  \/ SetSortBy

SpecView == InitView /\ [][NextView]_vars

(***************************************************************************)
(* Properties.                                                             *)
(***************************************************************************)
\* a task record: exactly the four properties of a Task
IsTaskRecord(e) == DOMAIN e = {"id", "title", "completed", "createdAt"}

\* the slot holds the JSON text of an array of task records
HoldsTaskArray(s) ==
  /\ s.present
  /\ JSONparse(s.text).ok
  /\ JSONparse(s.text).t = "arr"
  /\ \A i \in 1..Len(JSONparse(s.text).v) : IsTaskRecord(JSONparse(s.text).v[i])

Mutating == {"add", "toggle", "delete", "clear"}

\* C1: no two task records of the in-memory collection have the same id
\* (every collection the session starts from has pairwise distinct ids).
C1_UniqueIds ==
  phase = "ready" =>
    \A i, j \in 1..Len(tasks) : i # j => tasks[i].id # tasks[j].id

\* C2: when setItem has thrown after a mutating handler, no error has left
\* the component, the collection holds the handler's result and the
\* component still takes events.
C2_WriteFailureSwallowed ==
  (writeFailed /\ last.op \in Mutating) =>
    (uncaught = "none" /\ phase = "ready")

C4_LoadFallsBack ==
  [][(phase = "start" /\ phase' # "start" /\ ~HoldsTaskArray(slot)) =>
       (tasks' = MockTasks /\ uncaught' # "TypeError")]_vars

\* C5: what loadSavedTasks reads back from the serialization of the
\* collection is the collection itself, the empty collection included.
C5_RoundTrip ==
  phase = "ready" => loadSavedTasks(Holding(JSONstringify(tasks))) = tasks

\* the empty collection has been saved (a granted clear emptied it)
C5_Witness ==
  /\ phase = "ready"
  /\ last.op = "clear" /\ last.granted
  /\ tasks = <<>>
  /\ slot = Holding(<<P("["), P("]")>>)

\* s consists of blanks only
AllBlank(s) == \A i \in 1..Len(s) : s[i] = " "

\* t is s without its leading and trailing blanks
IsTrimOf(t, s) ==
  /\ t # <<>>
  /\ t[1] # " " /\ t[Len(t)] # " "
  /\ \E a \in 0..Len(s) :
       /\ a + Len(t) <= Len(s)
       /\ SubSeq(s, a + 1, a + Len(t)) = t
       /\ AllBlank(SubSeq(s, 1, a))
       /\ AllBlank(SubSeq(s, a + Len(t) + 1, Len(s)))

\* C6: a submit with a blank title leaves the collection unchanged; any other
\* submit makes it one longer, puts the new record at the front with
\* completed = false and the trimmed title, and keeps every earlier record,
\* in order, behind it.
C6_Add ==
  [][last'.op = "add" =>
       IF AllBlank(newTaskTitle)
         THEN tasks' = tasks
         ELSE /\ Len(tasks') = Len(tasks) + 1
              /\ tasks'[1].completed = FALSE
              /\ IsTrimOf(tasks'[1].title, newTaskTitle)
              /\ \A i \in 1..Len(tasks) : tasks'[i + 1] = tasks[i]]_vars

\* a padded title has been added in front of an earlier record
C6_Witness ==
  /\ last.op = "add"
  /\ Len(tasks) = 2
  /\ tasks[1].title = <<"a">> /\ ~tasks[1].completed
  /\ tasks[2] = StoredTask

\* C7: a toggle keeps the size and order of the collection, flips completed
\* on the records with the given id and changes nothing else (so nothing at
\* all when no record has that id), and a second toggle with the same id
\* gives back the collection as it was.
C7_Toggle ==
  [][last'.op = "toggle" =>
       /\ Len(tasks') = Len(tasks)
       /\ \A i \in 1..Len(tasks) :
            /\ tasks'[i].id = tasks[i].id
            /\ tasks'[i].title = tasks[i].title
            /\ tasks'[i].createdAt = tasks[i].createdAt
            /\ tasks'[i].completed =
                 (IF tasks[i].id = last'.id THEN ~tasks[i].completed
                                            ELSE tasks[i].completed)
       /\ ((\A i \in 1..Len(tasks) : tasks[i].id # last'.id) => tasks' = tasks)
       /\ Toggled(tasks', last'.id) = tasks]_vars

\* a completed record has just been toggled, next to a record it left alone
C7_Witness ==
  /\ last.op = "toggle"
  /\ Len(tasks) >= 2
  /\ \E i \in 1..Len(tasks) : tasks[i].id = last.id /\ ~tasks[i].completed
  /\ tasks # MockTasks

\* the positions of the records of ts that are not completed
PendingAt(ts) == {i \in 1..Len(ts) : ~ts[i].completed}

\* C8: a granted clear keeps exactly the records that are not completed,
\* unchanged and in their order; clearing its result again changes nothing;
\* when no record is completed the collection stays as it is.
C8_ClearCompleted ==
  [][last'.op = "clear" =>
       /\ last'.granted =>
            /\ Len(tasks') = Cardinality(PendingAt(tasks))
            /\ \A i \in PendingAt(tasks) :
                 tasks'[Cardinality({j \in PendingAt(tasks) : j <= i})] = tasks[i]
            /\ Cleared(tasks') = tasks'
       /\ PendingAt(tasks) = 1..Len(tasks) => tasks' = tasks]_vars

\* a granted clear has removed completed records and kept pending ones
C8_Witness ==
  /\ last.op = "clear" /\ last.granted
  /\ Len(tasks) = 1
  /\ tasks[1] = MockTasks[3]

\* the positions of the records of ts whose id is not taskId
KeptAt(ts, taskId) == {i \in 1..Len(ts) : ts[i].id # taskId}

\* C10: a declined delete or clear leaves collection and slot as they were; a
\* granted delete removes the records with the given id and nothing else, so
\* nothing when no record has that id.
C10_Confirmation ==
  [][last'.op \in {"delete", "clear"} =>
       IF ~last'.granted
         THEN tasks' = tasks /\ slot' = slot
         ELSE last'.op = "delete" =>
                /\ Len(tasks') = Cardinality(KeptAt(tasks, last'.id))
                /\ \A i \in KeptAt(tasks, last'.id) :
                     tasks'[Cardinality({j \in KeptAt(tasks, last'.id) : j <= i})]
                       = tasks[i]
                /\ (KeptAt(tasks, last'.id) = 1..Len(tasks) => tasks' = tasks)]_vars

\* a granted delete has removed the middle record of the seed set
C10_Witness ==
  /\ last.op = "delete" /\ last.granted /\ last.id = 2
  /\ tasks = <<MockTasks[1], MockTasks[3]>>

\* the view of the current state
View == filteredTasks(tasks, filter, searchTerm, sortBy)

\* the record is one the filter mode shows
ModeShows(t) ==
  /\ filter = "pending" => t.completed = FALSE
  /\ filter = "completed" => t.completed = TRUE

\* the search text occurs in the title, letter case aside
TitleHasSearchText(t) ==
  \E o \in 0..(Len(t.title) - Len(searchTerm)) :
    \A j \in 1..Len(searchTerm) :
      LowerOf(t.title[o + j]) = LowerOf(searchTerm[j])

\* how the sort option orders a before b: -1 before, 0 equal keys, 1 after
KeyOrderOf(a, b) ==
  LET sign(n) == IF n < 0 THEN -1 ELSE IF n > 0 THEN 1 ELSE 0 IN
  CASE sortBy = "newest" -> sign(GetTime(b.createdAt) - GetTime(a.createdAt))
    [] sortBy = "oldest" -> sign(GetTime(a.createdAt) - GetTime(b.createdAt))
    [] sortBy = "az" -> sign(LocaleCompare(a.title, b.title))
    [] sortBy = "za" -> sign(LocaleCompare(b.title, a.title))
    [] sortBy = "pending-first" ->
         IF a.completed = b.completed THEN 0 ELSE IF b.completed THEN -1 ELSE 1

\* the record is one the view has to show
Qualifies(t) == ModeShows(t) /\ TitleHasSearchText(t)

\* C9: every record of the view passes the filter mode and the search text;
\* the view holds each record of the collection that passes both exactly
\* once; it is ordered by the sort option, and the records of one key are in
\* their collection order.
C9_View ==
  LET v == View
      shown == SelectSeq(tasks, Qualifies)
  IN /\ \A k \in 1..Len(v) : Qualifies(v[k])
     /\ Len(v) = Len(shown)
     /\ \A i \in 1..Len(shown) : \E k \in 1..Len(v) : v[k] = shown[i]
     /\ \A k, l \in 1..Len(v) : k < l => KeyOrderOf(v[k], v[l]) <= 0
     /\ \A k \in 1..Len(v) :
          SelectSeq(v, LAMBDA t : KeyOrderOf(t, v[k]) = 0)
            = SelectSeq(shown, LAMBDA t : KeyOrderOf(t, v[k]) = 0)

\* two completed records matching "A" are shown newest first, the reverse
\* of their collection order, and a pending one is left out
C9_Witness ==
  /\ filter = "completed" /\ searchTerm = <<"A">> /\ sortBy = "newest"
  /\ Len(tasks) = 3
  /\ ~tasks[1].completed
  /\ LET v == View
     IN /\ Len(v) = 2
        /\ GetTime(v[1].createdAt) > GetTime(v[2].createdAt)
        /\ v = <<tasks[3], tasks[2]>>

====
